---- MODULE Spec2Model ----
(***************************************************************************)
(* Model of the Pico W firmware (src/src/raspi_firmware/code.py): the      *)
(* cooperative main loop, the MQTT wrapper, the hand-rolled HTTP server    *)
(* and the POST /config validation and merge.                              *)
(***************************************************************************)
EXTENDS Integers, Sequences, FiniteSets, TLC

\* ------------------------------------------------------------------ bounds
\* The clock stops advancing at MaxTime (abstract seconds).
MaxTime == 5
\* Largest delay one step of the loop may take.
MaxDelay == 1
\* Largest number of keys of a submitted JSON object (CfgSpec).
MaxKeys == 2

\* ------------------------------------------------------- program constants
\* NetworkManager.max_retries
max_retries == 5
\* NetworkManager.retry_delay
retry_delay == 5
\* Largest valid mqtt_port
MaxPort == 65535
\* Largest valid sensor_pin
MaxPin == 28

\* ------------------------------------------------------------- JSON values
\* A JSON / Python value: its Python type and an integer payload. A bool
\* carries 1 or 0, as Python's bool (a subclass of int) does; a float with
\* payload n stands for n + 0.5; a string carries the number of its text.
JInt(n) == [t |-> "int", v |-> n]
JStr(n) == [t |-> "str", v |-> n]
JFloat(n) == [t |-> "float", v |-> n]
JTrue == [t |-> "bool", v |-> 1]
JFalse == [t |-> "bool", v |-> 0]
JNull == [t |-> "null", v |-> 0]
JList == [t |-> "list", v |-> 0]
JObj == [t |-> "obj", v |-> 0]
\* The key is not in the dict.
Absent == [t |-> "absent", v |-> 0]

\* isinstance(x, int): true of int and of bool.
IsInstanceInt(x) == x.t \in {"int", "bool"}

\* ------------------------------------------------------------------- keys
valid_keys ==
    {"device_id", "names", "location", "mqtt_broker", "mqtt_port",
     "mqtt_user", "mqtt_password", "reading_interval_seconds", "sensor_pin"}

\* Keys a client may submit that the API does not know.
UnknownKeys == {"bogus", "MQTT_PORT"}

ExternalKeys == valid_keys \cup UnknownKeys

\* The keys of the settings dict built by load_settings.
InternalKeys ==
    {"device_id", "names", "location", "CIRCUITPY_WIFI_SSID",
     "CIRCUITPY_WIFI_PASSWORD", "MQTT_BROKER", "MQTT_PORT", "MQTT_USER",
     "MQTT_PASSWORD", "MQTT_CLIENT_ID", "telemetry_topic_temperature",
     "telemetry_topic_humidity", "status_topic", "reading_interval_seconds",
     "sensor_pin"}

\* key_mapping.get(key, key)
key_mapping(k) ==
    CASE k = "mqtt_broker" -> "MQTT_BROKER"
      [] k = "mqtt_port" -> "MQTT_PORT"
      [] k = "mqtt_user" -> "MQTT_USER"
      [] k = "mqtt_password" -> "MQTT_PASSWORD"
      [] OTHER -> k

\* ------------------------------------------------------------ settings
\* The settings dict as load_settings builds it: strings by number, the
\* three integers, None for a key settings.toml does not set.
BaseSettings ==
    [k \in InternalKeys |->
        CASE k = "MQTT_PORT" -> JInt(1883)
          [] k = "reading_interval_seconds" -> JInt(2)
          [] k = "sensor_pin" -> JInt(15)
          [] k = "names" -> JNull
          [] k = "MQTT_PASSWORD" -> JStr(3)
          [] k = "CIRCUITPY_WIFI_PASSWORD" -> JStr(4)
          [] OTHER -> JStr(2)]

\* The same device with other credentials and another interval.
OtherSettings ==
    [BaseSettings EXCEPT !["MQTT_PASSWORD"] = JStr(5),
                         !["CIRCUITPY_WIFI_PASSWORD"] = JStr(6),
                         !["reading_interval_seconds"] = JInt(3)]

\* The same device with other credentials and nothing else changed.
RekeyedSettings ==
    [BaseSettings EXCEPT !["MQTT_PASSWORD"] = JStr(7),
                         !["CIRCUITPY_WIFI_PASSWORD"] = JStr(8)]

SettingsSet == {BaseSettings, OtherSettings, RekeyedSettings}

\* --------------------------------------------------------- request bodies
\* A request body: empty, only whitespace, text json.loads rejects, JSON
\* that is not an object, or a JSON object (obj: key -> value or Absent).
NoKeys == [k \in ExternalKeys |-> Absent]
EmptyBody == [kind |-> "empty", obj |-> NoKeys]
BlankBody == [kind |-> "blank", obj |-> NoKeys]
BadJsonBody == [kind |-> "badjson", obj |-> NoKeys]
ScalarBody == [kind |-> "scalar", obj |-> NoKeys]
ObjectBody(o) == [kind |-> "object", obj |-> o]

\* set(new_config.keys())
Keys(new_config) == {k \in ExternalKeys : new_config[k] # Absent}

\* Values a client submits for the three validated integer fields.
NumVals ==
    {JInt(-1), JInt(0), JInt(1), JInt(MaxPin), JInt(MaxPin + 1),
     JInt(MaxPort), JInt(MaxPort + 1), JStr(1), JFloat(80), JTrue, JFalse,
     JNull, JList, JObj}
\* Values a client submits for the fields that are not validated.
FreeVals == {JStr(1), JInt(7), JNull}

ValuesFor(k) ==
    IF k \in {"mqtt_port", "reading_interval_seconds", "sensor_pin"}
    THEN NumVals
    ELSE FreeVals

\* The (key, value) pairs a client may submit.
KeyVals ==
    {kv \in ExternalKeys \X (NumVals \cup FreeVals) : kv[2] \in ValuesFor(kv[1])}

\* The JSON objects of at most n keys.
RECURSIVE ObjectsUpTo(_)
ObjectsUpTo(n) ==
    IF n = 0 THEN {NoKeys}
    ELSE {[o EXCEPT ![kv[1]] = kv[2]] : o \in ObjectsUpTo(n - 1), kv \in KeyVals}
             \cup {NoKeys}

\* The JSON objects of at most MaxKeys keys.
Objects == ObjectsUpTo(MaxKeys)

Bodies ==
    {EmptyBody, BlankBody, BadJsonBody, ScalarBody}
        \cup {ObjectBody(o) : o \in Objects}

\* ------------------------------------------------------------- responses
\* An HTTP response: status code, message, and the keys the message lists
\* (the offending keys of a 400, the updated_fields of a 200). -1 stands for
\* JSON null.
\* data: the JSON object of a 200 to GET /config, or the three reading
\* fields of a /status body. allow: the value of
\* the Allow header among extra_headers, "" when there is none.
NullStatus ==
    [last_temperature |-> -1, last_humidity |-> -1,
     last_reading_timestamp |-> -1]
Response(status, msg, keys) ==
    [status |-> status, msg |-> msg, keys |-> keys, data |-> NullStatus,
     allow |-> ""]
http_error(status, msg) == Response(status, msg, {})
NoResponse == Response(0, "", {})

\* ------------------------------------------------------------ _post_config
\* invalid_keys = set(new_config.keys()) - valid_keys
invalid_keys_all(new_config) == Keys(new_config)
invalid_keys(new_config) == Keys(new_config) \ valid_keys

\* isinstance(v, int) and 1 <= v <= 65535
PortValid(x) == IsInstanceInt(x) /\ 1 <= x.v /\ x.v <= MaxPort
\* isinstance(v, int) and not v < 1
IntervalValid(x) == IsInstanceInt(x) /\ ~(x.v < 1)
\* isinstance(v, int) and 0 <= v <= 28
PinValid(x) == IsInstanceInt(x) /\ 0 <= x.v /\ x.v <= MaxPin

\* updated_settings = settings.copy(); updated_settings[internal_key] = value
updated_settings_fresh(cur, new_config) ==
    [ik \in InternalKeys |->
        IF \E k \in Keys(new_config) : key_mapping(k) = ik
        THEN new_config[CHOOSE k \in Keys(new_config) : key_mapping(k) = ik]
        ELSE JNull]
updated_settings(cur, new_config) ==
    [ik \in InternalKeys |->
        IF \E k \in Keys(new_config) : key_mapping(k) = ik
        THEN new_config[CHOOSE k \in Keys(new_config) : key_mapping(k) = ik]
        ELSE cur[ik]]

\* What _post_config decides before it calls save_settings: the response,
\* whether save_settings is called, and the settings passed to it.
Decision(resp, save, arg) == [resp |-> resp, save |-> save, arg |-> arg]

post_config(body, cur) ==
    IF body.kind \in {"empty", "blank"}
    THEN Decision(http_error(400, "Empty request body"), FALSE, cur)
    ELSE IF body.kind = "badjson"
    THEN Decision(http_error(400, "Invalid JSON"), FALSE, cur)
    ELSE IF body.kind = "scalar"
    \* new_config.keys() raises AttributeError, caught at the end
    THEN Decision(http_error(500, "Internal Server Error"), FALSE, cur)
    ELSE LET new_config == body.obj IN
    IF invalid_keys(new_config) # {}
    THEN Decision(Response(400, "Invalid configuration keys",
                           invalid_keys(new_config)), FALSE, cur)
    ELSE IF new_config["mqtt_port"] # Absent
            /\ ~PortValid(new_config["mqtt_port"])
    THEN Decision(http_error(400, "mqtt_port must be integer between 1-65535"),
                  FALSE, cur)
    ELSE IF new_config["reading_interval_seconds"] # Absent
            /\ ~IntervalValid(new_config["reading_interval_seconds"])
    THEN Decision(http_error(400,
                    "reading_interval_seconds must be positive integer"),
                  FALSE, cur)
    ELSE IF new_config["sensor_pin"] # Absent
            /\ ~PinValid(new_config["sensor_pin"])
    THEN Decision(http_error(400, "sensor_pin must be integer between 0-28"),
                  FALSE, cur)
    ELSE Decision(Response(200, "Configuration updated successfully",
                           Keys(new_config)),
                  TRUE, updated_settings(cur, new_config))

\* ------------------------------------------------------------- requests
\* Bytes of a non-empty request body, in recv-sized pieces.
BodyBytes == 2

BodyLen(body) == IF body.kind = "empty" THEN 0 ELSE BodyBytes

\* What a client puts on an accepted connection: nothing at all, a request
\* line of fewer than two tokens, such a line with a byte in it that is not
\* UTF-8, a request line with headers ("ok"), or a request line after
\* which the bytes stop before the blank line that ends the headers
\* ("unterminated": the head loop leaves by timeout or by n == 0, and
\* header_end is -1). clhdr says
\* whether a Content-Length header is there and parses ("num"), is there and
\* is not a number ("bad"), or is missing; b0 is how much of the body arrives
\* together with the headers.
Request(line, method, path, clhdr, cl, body, b0) ==
    [line |-> line, method |-> method, path |-> path, clhdr |-> clhdr,
     cl |-> cl, body |-> body, b0 |-> b0]

NoRequest == Request("idle", "", "", "absent", 0, EmptyBody, 0)
NoBytes == Request("none", "", "", "absent", 0, EmptyBody, 0)
Malformed == Request("malformed", "", "", "absent", 0, EmptyBody, 0)
\* b"\xff\r\n\r\n": request.decode("utf-8") raises
Undecodable == Request("undecodable", "", "", "absent", 0, EmptyBody, 0)

\* b"GET <path> HTTP/1.1\r\n" and nothing more.
Unterminated(path) == Request("unterminated", "GET", path, "absent", 0,
                              EmptyBody, 0)

Methods == {"GET", "POST", "DELETE"}
Paths == {"/config", "/status", "/other"}

\* Bodies the main loop's clients post: one of each outcome of _post_config.
LoopBodies ==
    {BlankBody, ScalarBody,
     ObjectBody([NoKeys EXCEPT !["mqtt_port"] = JInt(1884)]),
     ObjectBody([NoKeys EXCEPT !["bogus"] = JStr(1)]),
     ObjectBody([NoKeys EXCEPT !["sensor_pin"] = JInt(MaxPin + 1)])}

Requests ==
    {NoBytes, Malformed, Undecodable}
    \cup {Unterminated("/config"), Unterminated("/other")}
    \cup {Request("ok", m, p, "absent", 0, EmptyBody, 0) :
             m \in Methods, p \in Paths}
    \cup {Request("ok", m, "/status", "num", 1, EmptyBody, 0) : m \in Methods}
    \cup {Request("ok", "POST", "/config", "bad", 0, b, BodyLen(b)) :
             b \in LoopBodies}
    \cup {Request("ok", "POST", "/config", "absent", 0, b, b0) :
             b \in LoopBodies, b0 \in {0, BodyBytes}}
    \cup {Request("ok", "POST", "/config", "num", cl, b, b0) :
             b \in LoopBodies, cl \in {BodyBytes, BodyBytes + 1},
             b0 \in {0, BodyBytes}}

\* content_length: 0 unless a Content-Length header is found
content_length(r) == IF r.clhdr = "num" THEN r.cl ELSE 0

\* The body string after n of its bytes have arrived: a proper prefix of a
\* JSON object is not JSON.
Received(body, n) ==
    IF n >= BodyLen(body) THEN body
    ELSE IF n = 0 THEN EmptyBody
    ELSE IF body.kind = "object" THEN BadJsonBody
    ELSE body

\* ------------------------------------------------------------------ state
VARIABLES
    pc,                 \* where main() is: boot_client, boot_mqtt, boot_web,
                        \* loop, poll,
                        \* sample, link, sleep, reset
    now,                \* time.monotonic()
    settings,           \* ConfigManager.settings
    stored,             \* what /settings.toml holds
    wifi_connected,     \* wifi.radio.connected
    mqtt_connected,     \* the broker session is up
    server_socket,      \* WebServer.server_socket is a listening socket
    dht,                \* Sensor.dht is a driver (not None)
    last_reading_time,  \* main()'s timer
    last_sensor_data,   \* WebServer.last_sensor_data
    last_will,          \* the will registered on the MQTT client object
    pollPc,             \* where poll() is: idle, body (at the while test)
    request,            \* the request on the accepted connection
    body_got,           \* len(body)
    peer_closed,        \* recv on the connection has returned b""
    response,           \* the response sent on the connection
    save_called,        \* save_settings was called for the request
    save_arg,           \* the settings passed to it
    conn,               \* the client socket of this poll(): none, open or
                        \* closed; the accepts of this tick (to 2); whether
                        \* a route handler was called for it
    tickSteps,          \* the steps of the current tick, in the order run
    sampling,           \* when the sampling step fired: the time of the
                        \* fire before the last (or of loop start), the
                        \* time of the last fire (or -1), the fires (to 2)
    telemetry,          \* what the last publish_telemetry did
    linkResult,         \* what the last link check did
    good_sample,        \* the last reading sensor.read_data() returned
    sensor_read,        \* sensor.read_data() in the sampling step of this
                        \* tick: none (not called), ok, or failed (None)
    connect_log,        \* NetworkManager.connect() in the link check of this
                        \* tick: what each wifi.radio.connect would do, the
                        \* value returned, the attempts and sleeps in order
    mqtt_calls,         \* the MqttClient methods main() called in its last
                        \* step, in order: method, argument, whether the
                        \* broker library raised inside it, value returned
    message_count,      \* collector: message_count
    message,            \* collector: the msg of the last on_message call
    db,                 \* collector: the rows of the three tables
    head_len,           \* poll(): len(request) in the loop that reads the head
    head_state          \* that loop: reading, or how it was left

mainVars == <<pc, now, settings, stored, wifi_connected, mqtt_connected,
              server_socket, dht, last_reading_time, last_sensor_data,
              last_will>>
pollVars == <<pollPc, request, body_got, peer_closed, response, save_called,
              save_arg, conn>>
histVars == <<tickSteps, sampling, telemetry, linkResult, good_sample,
              sensor_read, connect_log>>
collVars == <<message_count, message, db>>
headVars == <<head_len, head_state>>
vars == <<mainVars, pollVars, histVars, mqtt_calls, collVars, headVars>>

\* self.last_sensor_data = None
NoData == [temperature |-> -1, humidity |-> -1, timestamp |-> -1]
\* Readings the DHT delivers: (temperature, humidity).
Readings == {<<21, 48>>, <<0, 0>>}

\* publish_telemetry has not run.
NoTelemetry == [connected |-> FALSE, calls |-> <<>>, delivered |-> <<>>]

\* ---------------------------------------------------------------- routing
\* _get_status: current_temp, current_humidity and last_reading_time stay
\* None unless self.last_sensor_data is set, and are then taken from it.
get_status_swapped(cache) ==
    [Response(200, "status", {}) EXCEPT !.data =
        IF cache = NoData THEN NullStatus
        ELSE [last_temperature |-> cache.humidity,
              last_humidity |-> cache.temperature,
              last_reading_timestamp |-> cache.timestamp]]
get_status(cache) ==
    [Response(200, "status", {}) EXCEPT !.data =
        IF cache = NoData THEN NullStatus
        ELSE [last_temperature |-> cache.temperature,
              last_humidity |-> cache.humidity,
              last_reading_timestamp |-> cache.timestamp]]

\* _get_config: the dict of eight keys built from settings.get(...).
ConfigKeys ==
    {"device_id", "names", "location", "mqtt_broker", "mqtt_port",
     "mqtt_user", "reading_interval_seconds", "sensor_pin"}
get_config_leaky(cur) ==
    [Response(200, "config", {}) EXCEPT !.data =
        [k \in ConfigKeys \cup {"mqtt_password"} |-> cur[key_mapping(k)]]]
get_config(cur) ==
    [Response(200, "config", {}) EXCEPT !.data =
        [k \in ConfigKeys |-> cur[key_mapping(k)]]]

\* _handle_get_request
handle_get_request_405(path) ==
    IF path = "/config" THEN get_config(settings)
    ELSE IF path = "/status" THEN get_status(last_sensor_data)
    ELSE http_error(405, "Method Not Allowed")
handle_get_request(path) ==
    IF path = "/config" THEN get_config(settings)
    ELSE IF path = "/status" THEN get_status(last_sensor_data)
    ELSE http_error(404, "Not Found")

\* _handle_post_request
handle_post_request(path, body, cur) ==
    IF path = "/config" THEN post_config(body, cur)
    ELSE Decision(http_error(404, "Not Found"), FALSE, cur)

\* The dispatch at the end of poll: method -> handler.
Route(method, path, body, cur) ==
    IF method = "GET" THEN Decision(handle_get_request(path), FALSE, cur)
    ELSE IF method = "POST" THEN handle_post_request(path, body, cur)
    ELSE Decision([http_error(405, "Method Not Allowed")
                      EXCEPT !.allow = "GET, POST"], FALSE, cur)

\* ------------------------------------------------------------- collector
\* Messages the collector handles.
MaxMessages == 2

\* A key the JSON payload does not have.
Missing == "missing"
\* msg: the words among status, temperature and humidity that occur in
\* msg.topic.lower(), the payload object, and utcnow at its arrival.
Message(topic, payload, utcnow) ==
    [topic |-> topic, payload |-> payload, utcnow |-> utcnow]
NoMessage ==
    Message({}, [device_id |-> Missing, timestamp |-> -1, status |-> Missing,
                 value |-> -1], -1)
Topics ==
    {{"status"}, {"temperature"}, {"humidity"}, {},
     {"status", "temperature"}, {"temperature", "humidity"},
     {"status", "temperature", "humidity"}}
\* timestamp and value are -1 when the key is missing.
Payloads ==
    [device_id : {Missing, "pico"}, timestamp : {-1, 1},
     status : {Missing, "online"}, value : {-1, 21}]
EmptyDb == [sensor_status |-> {}, temperature |-> {}, humidity |-> {}]

\* The if / if / elif / else chain over `"word" in topic.lower()`.
topic_kind_by_last_word(topic) ==
    IF "humidity" \in topic THEN "humidity"
    ELSE IF "temperature" \in topic THEN "temperature"
    ELSE IF "status" \in topic THEN "status"
    ELSE "unknown"
topic_kind(topic) ==
    IF "status" \in topic THEN "status"
    ELSE IF "temperature" \in topic THEN "temperature"
    ELSE IF "humidity" \in topic THEN "humidity"
    ELSE "unknown"

\* payload.get("device_id", "unknown")
device_id_of(payload) ==
    IF payload.device_id = Missing THEN "unknown" ELSE payload.device_id
\* fromisoformat(timestamp_str) if timestamp_str else datetime.utcnow()
timestamp_of(payload, utcnow) ==
    IF payload.timestamp = -1 THEN utcnow ELSE payload.timestamp

\* The table rows after on_message(msg): the upsert into sensor_status, or
\* the insert into temperature or humidity, or nothing.
rows_after(rows, msg) ==
    LET device_id == device_id_of(msg.payload)
        timestamp == timestamp_of(msg.payload, msg.utcnow)
        value == IF msg.payload.value = -1 THEN 0 ELSE msg.payload.value
        status == IF msg.payload.status = Missing THEN "unknown"
                  ELSE msg.payload.status
        kind == topic_kind(msg.topic)
    IN IF kind = "status"
       THEN [rows EXCEPT !.sensor_status =
                {r \in @ : r.device_id # device_id}
                  \cup {[device_id |-> device_id, status |-> status,
                         last_seen |-> timestamp]}]
       ELSE IF kind = "temperature"
       THEN [rows EXCEPT !.temperature =
                @ \cup {[device_id |-> device_id, value |-> value,
                         timestamp |-> timestamp]}]
       ELSE IF kind = "humidity"
       THEN [rows EXCEPT !.humidity =
                @ \cup {[device_id |-> device_id, value |-> value,
                         timestamp |-> timestamp]}]
       ELSE rows

\* on_message(client, userdata, msg)
on_message ==
    /\ message_count < MaxMessages
    /\ message_count' = message_count + 1
    /\ \E topic \in Topics, payload \in Payloads :
          /\ message' = Message(topic, payload, 100 + message_count)
          /\ db' = rows_after(db, message')
    /\ UNCHANGED <<mainVars, pollVars, histVars, mqtt_calls, headVars>>

\* -------------------------------------------------------- MqttClient
\* self.mqtt.will_set(status_topic, {"status": "offline", ...}, qos=1,
\* retain=True) in MqttClient.__init__; before it the client has no will.
NoWill == [topic |-> "", status |-> "", qos |-> 0, retain |-> FALSE]
LastWillForgotten == NoWill
LastWill ==
    [topic |-> "status_topic", status |-> "offline", qos |-> 1,
     retain |-> TRUE]

\* What a method of MqttClient returns when the broker library raises inside
\* it and when it does not: connect() has `return True` in its try and
\* `return False` in its except; publish_telemetry, publish_status and loop
\* have no return statement on either path.
Returned(op, raised) ==
    IF op = "connect" THEN (IF raised THEN "False" ELSE "True")
    ELSE "None"
\* One call of a method of MqttClient by main().
Call(op, arg, raised) ==
    [op |-> op, arg |-> arg, raised |-> raised, ret |-> Returned(op, raised)]

\* ---------------------------------------------------- NetworkManager
\* NetworkManager.connect(): `for attempt in range(self.max_retries)`, with
\* outcomes[attempt + 1] saying whether wifi.radio.connect succeeds in that
\* pass. The result is the value returned and the trail of what was done:
\* "try" for a wifi.radio.connect call, "sleep" for a time.sleep(retry_delay).
RECURSIVE connect_from_sleepy(_, _, _)
connect_from_sleepy(attempt, outcomes, trail) ==
    IF attempt >= max_retries
    THEN [result |-> FALSE, trail |-> trail]
    ELSE IF outcomes[attempt + 1]
    THEN [result |-> TRUE, trail |-> Append(trail, "try")]
    ELSE connect_from_sleepy(attempt + 1, outcomes,
                             trail \o <<"try", "sleep">>)
RECURSIVE connect_from(_, _, _)
connect_from(attempt, outcomes, trail) ==
    IF attempt >= max_retries
    THEN [result |-> FALSE, trail |-> trail]
    ELSE IF outcomes[attempt + 1]
    THEN [result |-> TRUE, trail |-> Append(trail, "try")]
    ELSE connect_from(attempt + 1, outcomes,
                      IF attempt < max_retries - 1
                      THEN trail \o <<"try", "sleep">>
                      ELSE Append(trail, "try"))
connect(outcomes) == connect_from(0, outcomes, <<>>)

\* How often x occurs in seq.
Count(seq, x) == Cardinality({i \in DOMAIN seq : seq[i] = x})
\* The radio fails `fails` times and succeeds from then on.
Outcomes(fails) == [i \in 1..max_retries |-> i > fails]
\* connect() was not called.
NoConnectLog == [outcomes |-> <<>>, result |-> FALSE, trail |-> <<>>]

\* What connect() returns and how long it sleeps when the radio fails
\* `fails` times.
connect_result(fails) == connect(Outcomes(fails)).result
connect_sleeps(fails) ==
    Count(connect(Outcomes(fails)).trail, "sleep") * retry_delay

\* No client socket: accept() has not returned one.
NoConn == [state |-> "none", accepts |-> 0, dispatched |-> FALSE, sent |-> 0]
\* client, addr = self.server_socket.accept()
Accepted(c) ==
    [state |-> "open", accepts |-> IF c.accepts < 2 THEN c.accepts + 1 ELSE 2,
     dispatched |-> FALSE, sent |-> 0]
\* client.send(response)
Sent(c) == [c EXCEPT !.sent = @ + 1]
\* client.close()
Closed(c) == [c EXCEPT !.state = "closed"]
\* finally: client.close()
FinallySkipped(c) == c
Finally(c) == Closed(c)

\* reading_interval = config['reading_interval_seconds']
reading_interval == settings["reading_interval_seconds"].v

Min(a, b) == IF a <= b THEN a ELSE b

\* Time passes while a step runs: at least atLeast, at most MaxDelay more.
Advance(atLeast) ==
    \E d \in 0..MaxDelay : now' = Min(now + atLeast + d, MaxTime)

\* The order of the statements in the body of main()'s while loop.
NextStepSwapped(step) ==
    CASE step = "loop" -> "poll"
      [] step = "poll" -> "link"
      [] step = "link" -> "sample"
      [] step = "sample" -> "sleep"
      [] OTHER -> "loop"
NextStep(step) ==
    CASE step = "loop" -> "poll"
      [] step = "poll" -> "sample"
      [] step = "sample" -> "link"
      [] step = "link" -> "sleep"
      [] OTHER -> "loop"

Init ==
    /\ pc = "boot_client"
    /\ now = 0
    /\ settings = BaseSettings
    /\ stored = settings
    /\ wifi_connected = TRUE
    /\ mqtt_connected = FALSE
    /\ server_socket = FALSE
    /\ dht \in BOOLEAN
    /\ last_reading_time = 0
    /\ last_sensor_data = NoData
    /\ last_will = NoWill
    /\ pollPc = "idle"
    /\ request = NoRequest
    /\ body_got = 0
    /\ peer_closed = FALSE
    /\ response = NoResponse
    /\ save_called = FALSE
    /\ save_arg = settings
    /\ conn = NoConn
    /\ tickSteps = <<>>
    /\ sampling = [prev |-> 0, last |-> -1, count |-> 0]
    /\ telemetry = NoTelemetry
    /\ linkResult = "none"
    /\ good_sample = NoData
    /\ sensor_read = "none"
    /\ connect_log = NoConnectLog
    /\ mqtt_calls = <<>>
    /\ message_count = 0
    /\ message = NoMessage
    /\ db = EmptyDb
    /\ head_len = 0
    /\ head_state = "reading"

\* ------------------------------------------------------------------- boot
\* main() step 4: mqtt_client = MqttClient(config), whose __init__ builds
\* the MQTT object and sets the will.
BootClient ==
    /\ pc = "boot_client"
    /\ last_will' = LastWill
    /\ pc' = "boot_mqtt"
    /\ UNCHANGED <<now, settings, stored, wifi_connected, mqtt_connected,
                   server_socket, dht, last_reading_time, last_sensor_data>>
    /\ UNCHANGED <<pollVars, histVars, mqtt_calls, collVars, headVars>>

\* `if not mqtt_client.connect(): print(...) else:
\* mqtt_client.publish_status("online")`: the calls made on the client when
\* the connect succeeds (ok) or not, raised saying whether the publish
\* raised inside publish_status.
boot_calls_unconditional(ok, raised) ==
    <<Call("connect", "", ~ok), Call("publish_status", "online", raised)>>
boot_calls(ok, raised) ==
    IF ok
    THEN <<Call("connect", "", FALSE),
           Call("publish_status", "online", raised)>>
    ELSE <<Call("connect", "", TRUE)>>

\* main() step 4, after the constructor: connect(), and
\* publish_status("online") when it returned True.
BootMqtt ==
    /\ UNCHANGED <<collVars, headVars, last_will>>
    /\ pc = "boot_mqtt"
    /\ \E ok \in BOOLEAN :
          /\ mqtt_connected' = ok
          /\ \E raised \in BOOLEAN : mqtt_calls' = boot_calls(ok, raised)
    /\ pc' = "boot_web"
    /\ Advance(0)
    /\ UNCHANGED <<settings, stored, wifi_connected, server_socket, dht,
                   last_reading_time, last_sensor_data>>
    /\ UNCHANGED <<pollVars, histVars>>

\* main() step 5: WebServer(...).start(), then the timer of the loop.
BootWeb ==
    /\ UNCHANGED <<collVars, headVars, last_will>>
    /\ pc = "boot_web"
    /\ \E ok \in BOOLEAN : server_socket' = ok
    /\ last_reading_time' = now
    /\ sampling' = [prev |-> now, last |-> -1, count |-> 0]
    /\ mqtt_calls' = <<>>
    /\ pc' = "loop"
    /\ Advance(0)
    /\ UNCHANGED <<settings, stored, wifi_connected, mqtt_connected, dht,
                   last_sensor_data>>
    /\ UNCHANGED <<pollVars, tickSteps, telemetry, linkResult, good_sample,
                   sensor_read, connect_log>>

\* --------------------------------------------------------- MqttClient.loop
\* The session states self.mqtt.loop(timeout=1) can leave behind: it keeps
\* the session it has, and an error (err) may have ended it; nothing in
\* MqttClient.loop() calls connect.
loop_session_reconnecting(connected, err) ==
    IF err THEN {connected, FALSE} ELSE {TRUE}
loop_session(connected, err) ==
    IF err THEN {connected, FALSE} ELSE {connected}

\* mqtt.loop(timeout=1) inside try/except: an error is printed, and the
\* session may be gone.
MqttLoop ==
    /\ UNCHANGED <<collVars, headVars, last_will>>
    /\ pc = "loop"
    /\ tickSteps' = Append(tickSteps, "loop")
    /\ \E err \in BOOLEAN :
          /\ mqtt_calls' = <<Call("loop", "", err)>>
          /\ mqtt_connected' \in loop_session(mqtt_connected, err)
    /\ pc' = NextStep("loop")
    /\ Advance(0)
    /\ UNCHANGED <<settings, stored, wifi_connected, server_socket, dht,
                   last_reading_time, last_sensor_data>>
    /\ UNCHANGED <<pollVars, sampling, telemetry, linkResult, good_sample,
                   sensor_read, connect_log>>

\* ----------------------------------------------------------- WebServer.poll
\* poll() returns to main().
PollReturnAgain ==
    /\ pollPc' = "idle"
    /\ pc' = "poll"
PollReturn ==
    /\ pollPc' = "idle"
    /\ pc' = NextStep("poll")

\* The connection of the last poll() and what was done on it are no longer
\* looked at once main() has gone on to its next step.
PollForgotten ==
    /\ request' = NoRequest
    /\ response' = NoResponse
    /\ save_called' = FALSE
    /\ save_arg' = settings
    /\ body_got' = 0
    /\ peer_closed' = FALSE
    /\ conn' = NoConn

\* No server socket, or accept() raised OSError: nobody is waiting.
PollNoClient ==
    /\ UNCHANGED <<collVars, headVars, last_will>>
    /\ pc = "poll"
    /\ pollPc = "idle"
    /\ tickSteps' = Append(tickSteps, "poll")
    /\ UNCHANGED <<request, response, save_called, save_arg, body_got,
                   peer_closed, conn>>
    /\ PollReturn
    /\ Advance(0)
    /\ UNCHANGED <<settings, stored, wifi_connected, mqtt_connected,
                   server_socket, dht, last_reading_time, last_sensor_data>>
    /\ mqtt_calls' = <<>>
    /\ UNCHANGED <<sampling, telemetry, linkResult, good_sample, sensor_read,
                   connect_log>>

\* accept() returned a client: read the head, parse the request line and
\* the Content-Length header, up to the while loop that completes the body.
PollAccept ==
    /\ UNCHANGED <<collVars, headVars, last_will>>
    /\ pc = "poll"
    /\ pollPc = "idle"
    /\ server_socket
    /\ tickSteps' = Append(tickSteps, "poll")
    /\ \E r \in Requests :
          /\ request' = r
          /\ save_called' = FALSE
          /\ save_arg' = settings
          /\ peer_closed' = FALSE
          /\ IF r.line = "none"
             THEN \* if not request: client.close(); return
                  /\ response' = NoResponse
                  /\ body_got' = 0
                  /\ conn' = Finally(Closed(Accepted(conn)))
                  /\ PollReturn
             ELSE IF r.line = "undecodable"
             THEN \* request.decode("utf-8") raises: except Exception
                  /\ response' = http_error(500, "Internal Server Error")
                  /\ body_got' = 0
                  /\ conn' = Finally(Sent(Accepted(conn)))
                  /\ PollReturn
             ELSE IF r.line = "malformed"
             THEN \* len(parts) < 2
                  /\ response' = http_error(400, "Bad Request")
                  /\ body_got' = 0
                  /\ conn' = Finally(Sent(Accepted(conn)))
                  /\ PollReturn
             ELSE IF r.clhdr = "bad"
             THEN \* int(...) raises ValueError: except Exception
                  /\ response' = http_error(500, "Internal Server Error")
                  /\ body_got' = r.b0
                  /\ conn' = Finally(Sent(Accepted(conn)))
                  /\ PollReturn
             ELSE /\ response' = NoResponse
                  /\ body_got' = r.b0
                  /\ conn' = Accepted(conn)
                  /\ pollPc' = "body"
                  /\ pc' = pc
    /\ Advance(0)
    /\ UNCHANGED <<settings, stored, wifi_connected, mqtt_connected,
                   server_socket, dht, last_reading_time, last_sensor_data>>
    /\ mqtt_calls' = <<>>
    /\ UNCHANGED <<sampling, telemetry, linkResult, good_sample, sensor_read,
                   connect_log>>

\* One pass of `while len(body) < content_length: body += client.recv(512)`:
\* recv returns bytes, raises OSError (timeout), or returns b"" because the
\* peer has closed, and then the body is as long as before.
PollRecvBody ==
    /\ UNCHANGED <<collVars, headVars, last_will>>
    /\ pc = "poll"
    /\ pollPc = "body"
    /\ body_got < content_length(request)
    /\ \/ /\ ~peer_closed
          /\ body_got < BodyLen(request.body)
          /\ \E n \in 1..(BodyLen(request.body) - body_got) :
                body_got' = body_got + n
          /\ UNCHANGED <<pc, pollPc, peer_closed, response, conn>>
       \/ /\ ~peer_closed
          /\ response' = http_error(500, "Internal Server Error")
          /\ conn' = Finally(Sent(conn))
          /\ PollReturn
          /\ UNCHANGED <<body_got, peer_closed>>
       \/ /\ peer_closed' = TRUE
          /\ UNCHANGED <<pc, pollPc, body_got, response, conn>>
    /\ Advance(0)
    /\ UNCHANGED <<settings, stored, wifi_connected, mqtt_connected,
                   server_socket, dht, last_reading_time, last_sensor_data>>
    /\ UNCHANGED <<request, save_called, save_arg, histVars, mqtt_calls>>

\* The body is complete: dispatch, and send what the handler returned.
\* A valid POST /config calls save_settings before it returns the response:
\* when the file is written the microcontroller resets inside the call, and
\* when writing fails the exception is swallowed and the 200 is sent.
PollDispatch ==
    /\ UNCHANGED <<collVars, headVars, last_will>>
    /\ pc = "poll"
    /\ pollPc = "body"
    /\ ~(body_got < content_length(request))
    /\ LET d == Route(request.method, request.path,
                      Received(request.body, body_got), settings)
       IN /\ save_called' = d.save
          /\ save_arg' = d.arg
          /\ \/ /\ d.save
                /\ stored' = d.arg
                /\ response' = NoResponse
                /\ conn' = [conn EXCEPT !.dispatched = TRUE]
                /\ pollPc' = pollPc
                /\ pc' = "reset"
             \/ /\ response' = d.resp
                /\ stored' = stored
                /\ conn' = Finally(Sent([conn EXCEPT !.dispatched = TRUE]))
                /\ PollReturn
    /\ Advance(0)
    /\ UNCHANGED <<settings, wifi_connected, mqtt_connected, server_socket,
                   dht, last_reading_time, last_sensor_data>>
    /\ UNCHANGED <<request, body_got, peer_closed, histVars, mqtt_calls>>

\* ---------------------------------------------------------- sampling step
\* current_time - last_reading_time >= reading_interval
IntervalElapsedEarly(current_time, last, interval) == current_time > last
IntervalElapsed(current_time, last, interval) ==
    current_time - last >= interval

\* The two self.mqtt.publish calls of publish_telemetry, in the order of the
\* source, inside one try: the publishes called and the ones that went
\* through when n of them do before one raises. A publish that raises ends
\* the try block, so the ones after it are not called.
publish_order == <<"temperature", "humidity">>
published_each_in_its_own_try(n) ==
    [calls |-> publish_order,
     delivered |-> IF n = 0 THEN <<"humidity">>
                   ELSE SubSeq(publish_order, 1, n)]
published(n) ==
    [calls |-> SubSeq(publish_order, 1, Min(n + 1, Len(publish_order))),
     delivered |-> SubSeq(publish_order, 1, n)]

\* publish_telemetry(data): mqtt.publish on the temperature topic, then on
\* the humidity topic, inside one try/except. n publishes go through before
\* one raises; none does unless the session and the link are up.
publish_telemetry(n) ==
    /\ n \in 0..2
    /\ (n > 0) => (mqtt_connected /\ wifi_connected)
    /\ telemetry' =
          [connected |-> mqtt_connected,
           calls |-> published(n).calls,
           delivered |-> published(n).delivered]
    /\ mqtt_calls' = <<Call("publish_telemetry", "", n < 2)>>
    /\ IF n < 2
       THEN mqtt_connected' \in {mqtt_connected, FALSE}
       ELSE mqtt_connected' = mqtt_connected

\* update_sensor_data(sensor_data)
update_sensor_data(r) ==
    last_sensor_data' =
        [temperature |-> r[1], humidity |-> r[2], timestamp |-> now]

\* The else branch of `if sensor_data:`: a message is printed and the LED
\* blinks; nothing is cached and nothing is published.
SkipCycleCaching ==
    /\ last_sensor_data' = [temperature |-> 0, humidity |-> 0,
                            timestamp |-> now]
    /\ UNCHANGED <<telemetry, mqtt_connected, good_sample>>
SkipCycleClearing ==
    /\ last_sensor_data' = NoData
    /\ UNCHANGED <<telemetry, mqtt_connected, good_sample>>
SkipCycle ==
    UNCHANGED <<last_sensor_data, telemetry, mqtt_connected, good_sample>>

\* `last_reading_time = current_time`, the first statement after the
\* interval check: the timer a sampling step leaves behind, whether the
\* read that follows it delivers a reading (read_ok) or not.
timer_after_retrying(current_time, last, read_ok) ==
    IF read_ok THEN current_time ELSE last
timer_after(current_time, last, read_ok) == current_time

\* The interval check of the loop, and when it passes: read the sensor,
\* cache the reading and publish it.
Sample ==
    /\ UNCHANGED <<collVars, headVars, last_will>>
    /\ pc = "sample"
    /\ tickSteps' = Append(tickSteps, "sample")
    /\ IF IntervalElapsed(now, last_reading_time, reading_interval)
       THEN /\ \E read_ok \in {dht} \cup {FALSE} :
                  /\ last_reading_time' =
                        timer_after(now, last_reading_time, read_ok)
                  /\ \/ \* sensor.read_data() returned a reading
                        /\ read_ok
                        /\ \E r \in Readings :
                              /\ update_sensor_data(r)
                              /\ good_sample' = [temperature |-> r[1],
                                                  humidity |-> r[2],
                                                  timestamp |-> now]
                        /\ \E n \in 0..2 : publish_telemetry(n)
                        /\ sensor_read' = "ok"
                     \/ \* sensor.read_data() returned None
                        /\ ~read_ok
                        /\ SkipCycle
                        /\ sensor_read' = "failed"
                        /\ mqtt_calls' = <<>>
            /\ sampling' = [prev |-> IF sampling.last = -1 THEN sampling.prev
                                     ELSE sampling.last,
                            last |-> now,
                            count |-> Min(sampling.count + 1, 2)]
       ELSE /\ sensor_read' = "none"
            /\ mqtt_calls' = <<>>
            /\ UNCHANGED <<last_reading_time, sampling, last_sensor_data,
                           telemetry, mqtt_connected, good_sample>>
    /\ pc' = NextStep("sample")
    /\ Advance(0)
    /\ PollForgotten
    /\ UNCHANGED <<settings, stored, wifi_connected, server_socket, dht>>
    /\ UNCHANGED <<pollPc, linkResult, connect_log>>

\* -------------------------------------------------------------- link check
\* if not network_mgr.is_connected(): if network_mgr.connect():
\*     mqtt_client.connect(); mqtt_client.publish_status("reconnected")
Link ==
    /\ UNCHANGED <<collVars, headVars, last_will>>
    /\ pc = "link"
    /\ tickSteps' = Append(tickSteps, "link")
    /\ IF wifi_connected
       THEN /\ linkResult' = "up"
            /\ connect_log' = NoConnectLog
            /\ mqtt_calls' = <<>>
            /\ Advance(0)
            /\ UNCHANGED <<wifi_connected, mqtt_connected>>
       ELSE \E fails \in 0..max_retries :
               /\ Advance(connect_sleeps(fails))
               /\ connect_log' =
                     [outcomes |-> Outcomes(fails),
                      result |-> connect(Outcomes(fails)).result,
                      trail |-> connect(Outcomes(fails)).trail]
               /\ IF connect_result(fails)
                  THEN /\ wifi_connected' = TRUE
                       /\ \E ok \in BOOLEAN :
                             /\ mqtt_connected' = ok
                             /\ \E raised \in {~ok, TRUE} :
                                   mqtt_calls' =
                                     <<Call("connect", "", ~ok),
                                       Call("publish_status", "reconnected",
                                            raised)>>
                       /\ linkResult' = "reconnected"
                  ELSE /\ linkResult' = "exhausted"
                       /\ mqtt_calls' = <<>>
                       /\ UNCHANGED <<wifi_connected, mqtt_connected>>
    /\ pc' = NextStep("link")
    /\ telemetry' = NoTelemetry
    /\ UNCHANGED <<settings, stored, server_socket, dht, last_reading_time,
                   last_sensor_data>>
    /\ sensor_read' = "none"
    /\ UNCHANGED <<pollVars, sampling, good_sample>>

\* time.sleep(0.1) at the end of the loop body.
Sleep ==
    /\ UNCHANGED <<collVars, headVars, last_will>>
    /\ pc = "sleep"
    /\ tickSteps' = <<>>
    /\ linkResult' = "none"
    /\ connect_log' = NoConnectLog
    /\ mqtt_calls' = <<>>
    /\ pc' = NextStep("sleep")
    /\ Advance(0)
    /\ UNCHANGED <<settings, stored, wifi_connected, mqtt_connected,
                   server_socket, dht, last_reading_time, last_sensor_data>>
    /\ UNCHANGED <<pollVars, sampling, telemetry, good_sample, sensor_read>>

\* The access point goes away.
LinkDrop ==
    /\ UNCHANGED <<collVars, headVars, last_will>>
    /\ pc \in {"loop", "poll", "sample", "link", "sleep"}
    /\ wifi_connected
    /\ wifi_connected' = FALSE
    /\ UNCHANGED <<pc, now, settings, stored, mqtt_connected, server_socket,
                   dht, last_reading_time, last_sensor_data>>
    /\ UNCHANGED <<pollVars, histVars, mqtt_calls>>

Next ==
    \/ BootClient
    \/ BootMqtt
    \/ BootWeb
    \/ MqttLoop
    \/ PollNoClient
    \/ PollAccept
    \/ PollRecvBody
    \/ PollDispatch
    \/ Sample
    \/ Link
    \/ Sleep
    \/ LinkDrop

Spec == Init /\ [][Next]_vars

\* The device, with the fairness of a running interpreter: a step that can
\* be taken is taken.
LiveSpec == Init /\ [][Next]_vars /\ WF_vars(Next)

\* ------------------------------------------------------------ POST /config
\* poll() at its dispatch with a complete POST /config body, for every body,
\* or with a GET /config.
CfgInit ==
    /\ pc = "poll"
    /\ now = 0
    /\ settings \in SettingsSet
    /\ stored = settings
    /\ wifi_connected = TRUE
    /\ mqtt_connected = TRUE
    /\ server_socket = TRUE
    /\ dht = TRUE
    /\ last_reading_time = 0
    /\ last_sensor_data = NoData
    /\ last_will = LastWill
    /\ pollPc = "body"
    /\ \/ \E b \in Bodies :
             /\ request = Request("ok", "POST", "/config", "num", BodyLen(b),
                                  b, BodyLen(b))
             /\ body_got = BodyLen(b)
       \/ /\ request = Request("ok", "GET", "/config", "absent", 0,
                                EmptyBody, 0)
          /\ body_got = 0
    /\ peer_closed = FALSE
    /\ response = NoResponse
    /\ save_called = FALSE
    /\ save_arg = settings
    /\ conn = Accepted(NoConn)
    /\ tickSteps = <<"loop", "poll">>
    /\ sampling = [prev |-> 0, last |-> -1, count |-> 0]
    /\ telemetry = NoTelemetry
    /\ linkResult = "none"
    /\ good_sample = NoData
    /\ sensor_read = "none"
    /\ connect_log = NoConnectLog
    /\ mqtt_calls = <<>>
    /\ message_count = 0
    /\ message = NoMessage
    /\ db = EmptyDb
    /\ head_len = 0
    /\ head_state = "reading"

CfgSpec == CfgInit /\ [][PollDispatch]_vars

\* ------------------------------------------------- reading the head
\* while len(request) < 4096
head_ceiling == 4096
\* buf = bytearray(512)
recv_size == 512

\* One pass of the loop that reads the head: recv_into puts n bytes into
\* buf and they are appended, after which the terminator is in the buffer
\* or not; or n is 0; or recv_into raises OSError.
HeadRecv ==
    /\ head_state = "reading"
    /\ head_len < head_ceiling
    /\ \/ \E n \in 1..recv_size :
             /\ head_len' = head_len + n
             /\ \/ head_state' = "reading"
                \/ head_len' >= 4 /\ head_state' = "terminator"
       \/ head_state' = "closed" /\ head_len' = head_len
       \/ head_state' = "timeout" /\ head_len' = head_len
    /\ UNCHANGED <<mainVars, pollVars, histVars, mqtt_calls, collVars>>

\* The loop test fails.
HeadFull ==
    /\ head_state = "reading"
    /\ ~(head_len < head_ceiling)
    /\ head_state' = "full"
    /\ UNCHANGED head_len
    /\ UNCHANGED <<mainVars, pollVars, histVars, mqtt_calls, collVars>>

\* poll() with a client just accepted, reading the head.
HeadInit == Init /\ dht
HeadSpec == HeadInit /\ [][HeadRecv \/ HeadFull]_vars

\* ---------------------------------------------------------- the collector
\* The collector, connected and subscribed, receiving messages.
CollectorInit == Init /\ dht
CollectorSpec == CollectorInit /\ [][on_message]_vars

\* ================================================================= claims
\* poll() has finished with the request: it returned to main(), or the
\* microcontroller was reset inside it.
Handled == request.line = "ok" /\ (pollPc = "idle" \/ pc = "reset")

\* The request in hand is a POST /config whose body is a JSON object.
PostedObject ==
    /\ request.method = "POST"
    /\ request.path = "/config"
    /\ body_got >= BodyLen(request.body)
    /\ request.body.kind = "object"

\* The steps of one tick, in the order of the specification.
TickOrder == <<"loop", "poll", "sample", "link">>

\* C1: in every tick the steps run in the order MqttClient.loop(),
\* WebServer.poll(), sampling check, link check: what has run of the current
\* tick is always a prefix of that order.
C1_StepsInFixedOrder ==
    /\ Len(tickSteps) <= Len(TickOrder)
    /\ \A i \in 1..Len(tickSteps) : tickSteps[i] = TickOrder[i]

\* C1 witness: a tick in which all four steps have run.
C1_FullTick == pc = "sleep" /\ tickSteps = TickOrder

\* C2: a sampling step fires only when at least reading_interval has passed
\* since the previous one (or since loop start), so two consecutive sampling
\* steps are at least reading_interval apart.
C2_SamplingSpaced ==
    sampling.last # -1 => sampling.last - sampling.prev >= reading_interval

\* C2 witness: two sampling steps have fired, with delays in between.
C2_TwoSamples == sampling.count = 2 /\ sampling.last - sampling.prev > reading_interval

\* C3 (as claimed): mqtt.publish is called for telemetry only while the
\* session is connected.
C3_PublishOnlyWhenConnected == telemetry.calls # <<>> => telemetry.connected

\* C4 (as claimed): when a POST /config restarts the device, the 200 response
\* has been sent on the connection before.
C4_ResponseBeforeRestart == pc = "reset" => response.status = 200

\* C5 (as claimed): when the link is down and connect() has used up its
\* retries, the device restarts.
C5_ExhaustedRestarts == linkResult = "exhausted" => pc = "reset"

\* C6 (as claimed): poll() always gets out of the loop that completes the
\* body: it returns (or the device restarts).
C6_PollReturns == (pollPc = "body") ~> (pollPc = "idle" \/ pc = "reset")

\* mqtt_port is there and is not an integer in [1, 65535].
BadPort(o) ==
    /\ o["mqtt_port"] # Absent
    /\ ~(o["mqtt_port"].t = "int" /\ o["mqtt_port"].v >= 1
            /\ o["mqtt_port"].v <= 65535)
\* reading_interval_seconds is there and is not a positive integer.
BadInterval(o) ==
    /\ o["reading_interval_seconds"] # Absent
    /\ ~(o["reading_interval_seconds"].t = "int"
            /\ o["reading_interval_seconds"].v >= 1)
\* sensor_pin is there and is not an integer in [0, 28].
BadPin(o) ==
    /\ o["sensor_pin"] # Absent
    /\ ~(o["sensor_pin"].t = "int" /\ o["sensor_pin"].v >= 0
            /\ o["sensor_pin"].v <= 28)

\* C7 (as claimed): a POST /config whose mqtt_port is not an integer or is
\* out of range gets 400, and save_settings is not called.
C7_BadPortRejected ==
    (Handled /\ PostedObject /\ BadPort(request.body.obj))
        => (response.status = 400 /\ ~save_called /\ stored = settings)

\* C8 (as claimed): a POST /config that breaks a validation rule gets 400
\* and changes nothing: nothing is saved and the device does not restart.
C8_InvalidChangesNothing ==
    (/\ Handled
     /\ request.method = "POST"
     /\ request.path = "/config"
     /\ body_got >= BodyLen(request.body)
     /\ \/ request.body.kind \in {"empty", "blank", "badjson"}
        \/ /\ request.body.kind = "object"
           /\ \/ Keys(request.body.obj) \ valid_keys # {}
              \/ BadPort(request.body.obj)
              \/ BadInterval(request.body.obj)
              \/ BadPin(request.body.obj))
        => (/\ response.status = 400
            /\ ~save_called
            /\ stored = settings
            /\ pc # "reset")

\* C9: a POST /config with a key outside the nine allowed ones gets 400, and
\* the keys the message lists are exactly the submitted keys that are not
\* allowed, whatever the other fields hold.
C9_UnknownKeysListed ==
    (Handled /\ PostedObject /\ (\E k \in Keys(request.body.obj) : k \notin valid_keys))
        => (/\ response.status = 400
            /\ response.keys = {k \in ExternalKeys :
                                   /\ request.body.obj[k] # Absent
                                   /\ k \notin valid_keys}
            /\ response.keys \subseteq Keys(request.body.obj)
            /\ ~save_called)

\* C9 witness: an unknown key next to an mqtt_port that is itself invalid.
C9_UnknownWithInvalid ==
    /\ Handled
    /\ PostedObject
    /\ request.body.obj["bogus"] # Absent
    /\ request.body.obj["mqtt_port"] = JInt(0)
    /\ response.status = 400
    /\ response.keys = {"bogus"}

\* C10: the settings passed to save_settings carry the submitted value on
\* every key the update addresses (after the key mapping) and the current
\* value on every other key; merging the same update again changes nothing.
C10_MergePreserves ==
    (Handled /\ PostedObject /\ save_called)
        => (/\ \A ik \in InternalKeys :
                  IF \E k \in Keys(request.body.obj) : key_mapping(k) = ik
                  THEN \A k \in Keys(request.body.obj) :
                          key_mapping(k) = ik => save_arg[ik] = request.body.obj[k]
                  ELSE save_arg[ik] = settings[ik]
            /\ updated_settings(save_arg, request.body.obj) = save_arg)

\* C10 witness: an update of the port and the location, saved.
C10_PortAndLocationSaved ==
    /\ Handled
    /\ PostedObject
    /\ save_called
    /\ Keys(request.body.obj) = {"mqtt_port", "location"}
    /\ save_arg["MQTT_PORT"] = JInt(1)
    /\ save_arg["MQTT_PORT"] # settings["MQTT_PORT"]
    /\ save_arg["MQTT_PASSWORD"] = settings["MQTT_PASSWORD"]

\* The request in hand is a POST /config that passed validation, so that
\* save_settings was called, and the settings file could not be written:
\* the call returned instead of resetting the microcontroller.
SaveFailed == Handled /\ save_called /\ pc # "reset"

\* C11: a POST /config that passes validation but whose settings file cannot
\* be written is answered with 500 and not with the 200 that announces a
\* reboot; a 200 to POST /config means the settings were stored and the
\* device restarts.
C11_FailedSaveAnswered500 ==
    /\ SaveFailed => response.status = 500
    /\ (Handled /\ PostedObject /\ response.status = 200)
          => (stored = save_arg /\ pc = "reset")

\* C12: GET /status reports the temperature, humidity and timestamp of the
\* most recent successful sensor sample, and null for all three when no
\* sample has succeeded since boot; the cached reading is that sample at
\* all times, so no failed sample clears or alters it.
C12_StatusReportsLastGoodSample ==
    /\ last_sensor_data = good_sample
    /\ (Handled /\ request.method = "GET" /\ request.path = "/status"
            /\ response.status = 200)
          => response.data =
               IF good_sample = NoData THEN NullStatus
               ELSE [last_temperature |-> good_sample.temperature,
                     last_humidity |-> good_sample.humidity,
                     last_reading_timestamp |-> good_sample.timestamp]

\* A status request answered after a successful sample that a later
\* sampling step, with no new reading, has followed.
C12_StatusAfterFailedSample ==
    /\ Handled /\ request.method = "GET" /\ request.path = "/status"
    /\ response.data.last_temperature = 21
    /\ sampling.count = 2
    /\ sampling.last > good_sample.timestamp

\* C13: a connection accepted by poll() is closed when poll() returns, on
\* every path: a sent response, the 400 for a malformed request line, an
\* empty request, and an internal exception answered with 500.
C13_ClosedWhenPollReturns == pollPc = "idle" => conn.state # "open"

\* poll() has returned after an exception inside it was answered with 500.
C13_ClosedAfterException ==
    /\ pollPc = "idle"
    /\ conn.state = "closed"
    /\ response.status = 500
    /\ ~conn.dispatched

\* C14: no failure inside a tick ends the control loop: a tick that has
\* begun is followed by the sleep that ends it, unless the device restarts,
\* and the device restarts only for a configuration update or after the
\* link check ran out of retries.
C14_LoopGoesOn ==
    /\ [](pc = "reset" => (save_called \/ linkResult = "exhausted"))
    /\ (pc \in {"loop", "poll", "sample", "link"})
          ~> (pc = "sleep" \/ pc = "reset")

\* The request line in hand has fewer than two whitespace-separated tokens.
FewTokens == request.line \in {"malformed", "undecodable"}

\* C15: a request whose request line has fewer than two whitespace-separated
\* tokens is answered with 400, poll() returns with the connection closed,
\* and no handler is dispatched for it.
C15_FewTokensAnswered400 ==
    FewTokens =>
        /\ pollPc = "idle"
        /\ response.status = 400
        /\ conn.state = "closed"
        /\ ~conn.dispatched

\* C16: routing of a well-formed request that reached the dispatch: GET
\* /config and GET /status yield 200, POST /config yields what validation
\* decides, GET or POST on any other path yields 404, any other method
\* yields 405 with an Allow header on every path, and GET and POST never
\* yield 405.
C16_Routing ==
    (Handled /\ conn.dispatched /\ pollPc = "idle") =>
        LET m == request.method
            p == request.path
            st == response.status
        IN /\ (m = "GET" /\ p \in {"/config", "/status"}) => st = 200
           /\ (m = "POST" /\ p = "/config") => st \in {200, 400, 500}
           /\ (m = "GET" /\ p \notin {"/config", "/status"}) => st = 404
           /\ (m = "POST" /\ p # "/config") => st = 404
           /\ (m \notin {"GET", "POST"})
                 => (st = 405 /\ response.allow = "GET, POST")
           /\ (m \in {"GET", "POST"}) => st # 405
           /\ save_called => (m = "POST" /\ p = "/config")

\* A DELETE on /config was dispatched and answered 405 with the header.
C16_DeleteConfig405 ==
    /\ Handled /\ conn.dispatched /\ pollPc = "idle"
    /\ request.method = "DELETE" /\ request.path = "/config"
    /\ response.status = 405 /\ response.allow = "GET, POST"

\* C17: a sampling step whose sensor read fails leaves the cached reading
\* as it was, publishes no telemetry message, and is followed by the
\* link-health check.
C17_FailedReadSkipsCycle ==
    [][(pc = "sample" /\ sensor_read' = "failed")
          => /\ last_sensor_data' = last_sensor_data
             /\ telemetry'.calls = <<>>
             /\ pc' = "link"]_vars

\* A read failed while a reading from an earlier cycle is cached.
C17_FailedReadAfterGoodOne ==
    /\ pc = "link"
    /\ sensor_read = "failed"
    /\ last_sensor_data # NoData
    /\ telemetry.calls = <<>>

\* C18: one call of poll() accepts at most one connection and has closed
\* it when it returns; a server socket that failed to start never yields a
\* connection; and a call that finds no connection returns without
\* reading, sending or changing any state of the device.
C18_OnePollOneConnection ==
    /\ [](conn.accepts <= 1)
    /\ []((pollPc = "idle" /\ conn.accepts = 1) => conn.state = "closed")
    /\ [](~server_socket => conn = NoConn)
    /\ [][(pc = "poll" /\ pollPc = "idle" /\ pc' # pc /\ conn'.accepts = 0)
            => UNCHANGED <<settings, stored, wifi_connected, mqtt_connected,
                           server_socket, dht, last_reading_time,
                           last_sensor_data, request, body_got, peer_closed,
                           response, save_called, save_arg, conn>>]_vars

\* poll() has returned from a listening server that had no client.
C18_NoClientPending ==
    /\ pc = "sample"
    /\ server_socket
    /\ conn = NoConn
    /\ response = NoResponse
    /\ last_sensor_data # NoData

\* C19: NetworkManager.connect() makes at most max_retries attempts,
\* returns True on the first attempt that succeeds and makes no attempt
\* after it, returns False after exactly max_retries failed attempts, and
\* sleeps between two attempts but not after the last one.
C19_ConnectRetries ==
    connect_log # NoConnectLog =>
        LET tries == Count(connect_log.trail, "try")
            t == connect_log.trail
        IN /\ tries >= 1 /\ tries <= max_retries
           /\ \A i \in 1..(tries - 1) : ~connect_log.outcomes[i]
           /\ connect_log.result <=> connect_log.outcomes[tries]
           /\ ~connect_log.result => tries = max_retries
           /\ Len(t) = 2 * tries - 1
           /\ \A i \in DOMAIN t :
                 t[i] = IF i % 2 = 1 THEN "try" ELSE "sleep"

\* connect() gave up after max_retries attempts with a sleep between each
\* two.
C19_GaveUpAfterFive ==
    /\ connect_log # NoConnectLog
    /\ ~connect_log.result
    /\ Count(connect_log.trail, "try") = max_retries
    /\ Count(connect_log.trail, "sleep") = max_retries - 1

\* C20: an exception the broker library raises inside connect(),
\* publish_telemetry(), publish_status() or loop() does not reach the
\* caller, which gets a value that differs from the one a call without an
\* exception returns.
C20_FailureDistinguishable ==
    \A i \in DOMAIN mqtt_calls :
        mqtt_calls[i].raised =>
            mqtt_calls[i].ret # Returned(mqtt_calls[i].op, FALSE)

\* main() called publish_status(status) in its last step.
StatusCalled(status) ==
    \E i \in DOMAIN mqtt_calls :
        mqtt_calls[i].op = "publish_status" /\ mqtt_calls[i].arg = status
\* MqttClient.connect() was called in the last step and returned True.
SessionConnected ==
    \E i \in DOMAIN mqtt_calls :
        mqtt_calls[i].op = "connect" /\ mqtt_calls[i].ret = "True"

\* C21: in a tick in which the link was found down, the "reconnected"
\* status is published exactly when the link reconnect succeeded and the
\* broker session was re-established in that tick; when the link reconnect
\* fails no status is published.
C21_ReconnectedOnlyOnSuccess ==
    linkResult \in {"reconnected", "exhausted"} =>
        /\ StatusCalled("reconnected")
              <=> (linkResult = "reconnected" /\ SessionConnected)
        /\ linkResult = "exhausted" => mqtt_calls = <<>>

\* The request in hand is a GET /config that was answered 200.
GotConfig ==
    /\ Handled /\ request.method = "GET" /\ request.path = "/config"
    /\ response.status = 200

\* Passwords a settings file may hold.
Passwords == {JStr(3), JStr(4), JStr(7), JStr(8), JNull}

\* C22: the body of the GET /config response has exactly the keys
\* device_id, names, location, mqtt_broker, mqtt_port, mqtt_user,
\* reading_interval_seconds and sensor_pin, and is the body returned in
\* every settings state that differs from this one only in MQTT_PASSWORD
\* and CIRCUITPY_WIFI_PASSWORD.
C22_ConfigHidesPasswords ==
    GotConfig =>
        /\ DOMAIN response.data =
              {"device_id", "names", "location", "mqtt_broker", "mqtt_port",
               "mqtt_user", "reading_interval_seconds", "sensor_pin"}
        /\ \A p1 \in Passwords, p2 \in Passwords :
              get_config([settings EXCEPT
                              !["MQTT_PASSWORD"] = p1,
                              !["CIRCUITPY_WIFI_PASSWORD"] = p2]).data
                = response.data
        /\ response.data["mqtt_port"] = settings["MQTT_PORT"]

\* GET /config was answered on the device with the other credentials.
C22_ConfigOfRekeyedDevice ==
    /\ GotConfig
    /\ settings = RekeyedSettings
    /\ response.data["mqtt_user"] = BaseSettings["MQTT_USER"]

\* C23: the cached reading changes only in a sampling step whose sensor
\* read succeeded; no step of poll() on any request, no MQTT loop call and
\* no link check changes it.
C23_CacheWrittenBySamplingOnly ==
    [][last_sensor_data' # last_sensor_data
          => (pc = "sample" /\ sensor_read' = "ok")]_vars

\* A POST /config was handled while a reading is cached.
C23_PostWithCachedReading ==
    /\ Handled /\ request.method = "POST" /\ conn.dispatched
    /\ last_sensor_data # NoData
    /\ linkResult = "none"

C25_DispatchOnlyWhenFramed ==
    conn.dispatched =>
        /\ request.line = "ok"
        /\ request.clhdr = "num" => body_got >= request.cl

\* C26: while the head is read the accumulated request buffer never holds
\* more than 4096 bytes, for every chunking of the incoming bytes into
\* recv results of 1..512 bytes.
C26_HeadWithinCeiling == head_len <= 4096

\* main() called MqttClient.connect() in the step just taken.
ConnectCalled ==
    \E i \in DOMAIN mqtt_calls : mqtt_calls[i].op = "connect"

\* C27: the retained last will, status "offline" on the status topic, is
\* registered on the broker client before every MqttClient.connect(), at
\* boot and after a link reconnect.
C27_WillSetBeforeConnect ==
    [][(pc \in {"boot_mqtt", "link"} /\ ConnectCalled')
          => /\ last_will.status = "offline"
             /\ last_will.topic = "status_topic"
             /\ last_will.retain]_vars

\* The session connect of a link reconnect, with the will in place.
C27_ReconnectWithWill ==
    /\ linkResult = "reconnected"
    /\ ConnectCalled
    /\ last_will.status = "offline"

\* C28: whatever the boot-time MqttClient.connect() returns, main() goes on
\* to WebServer.start() and from there into the main loop, and the "online"
\* status is published at boot exactly when that connect returned True.
C28_BootGoesOnWithoutBroker ==
    [][/\ pc = "boot_mqtt"
          => /\ pc' = "boot_web"
             /\ ConnectCalled'
             /\ StatusCalled("online")' <=> SessionConnected'
             /\ mqtt_connected' <=> SessionConnected'
       /\ pc = "boot_web" => pc' = "loop"
       /\ StatusCalled("online")' => pc = "boot_mqtt"]_vars

\* The main loop is entered for its first tick, the server listening, after
\* a boot in which the broker could not be reached.
C28_LoopEnteredWithoutSession ==
    /\ pc = "loop"
    /\ sampling.last = -1
    /\ tickSteps = <<>>
    /\ now <= MaxDelay + MaxDelay
    /\ ~mqtt_connected
    /\ server_socket

\* The sensor has been read at least once, and the last read delivered
\* nothing.
LastReadFailed ==
    sampling.last # -1 /\ good_sample.timestamp # sampling.last

\* C29: the timer is advanced whenever the interval has elapsed, whatever the
\* sensor delivers, so the read attempt that follows a failed read comes no
\* earlier than one reading interval after it, and a failed read leaves the
\* timer at the time of that read.
C29_NoImmediateRetry ==
    [][/\ (pc = "sample" /\ sensor_read' # "none" /\ LastReadFailed)
          => now - sampling.last >= reading_interval
       /\ (pc = "sample" /\ sensor_read' = "failed")
          => last_reading_time' = now]_vars

\* A read attempt after a failed one: two attempts made, none delivered.
C29_TwoFailedReads ==
    /\ sampling.count = 2
    /\ sensor_read = "failed"
    /\ good_sample = NoData

\* C30: inside the control loop a step of main() calls MqttClient.connect(),
\* and the session comes up, only in a link check that found the Wi-Fi link down and
\* reconnected it; with the link up, a session that is down stays down from
\* one step to the next.
C30_SessionOnlyWithLinkReconnect ==
    [][/\ (ConnectCalled' /\ pc' # pc /\ pc # "boot_mqtt")
          => (pc = "link" /\ ~wifi_connected /\ linkResult' = "reconnected")
       /\ (~mqtt_connected /\ mqtt_connected' /\ pc # "boot_mqtt")
          => (pc = "link" /\ ~wifi_connected /\ linkResult' = "reconnected")
       /\ (~mqtt_connected /\ wifi_connected /\ pc # "boot_mqtt")
          => ~mqtt_connected']_vars

\* Ticks have gone by, the last one complete, with the link up and the
\* session down.
C30_TickWithoutSession ==
    /\ pc = "sleep"
    /\ tickSteps = TickOrder
    /\ linkResult = "up"
    /\ wifi_connected
    /\ ~mqtt_connected
    /\ sampling.count = 2

\* The position of a topic in a sequence of publishes, 0 when it is not there.
Position(topic, seq) ==
    IF \E i \in DOMAIN seq : seq[i] = topic
    THEN CHOOSE i \in DOMAIN seq : seq[i] = topic
    ELSE 0

\* C31: publish_telemetry publishes temperature before humidity; the humidity
\* publish is called only after the temperature publish went through, so no
\* sample is published with its humidity alone.
C31_TemperatureBeforeHumidity ==
    /\ Position("humidity", telemetry.calls) > 0
          => /\ Position("temperature", telemetry.calls) > 0
             /\ Position("temperature", telemetry.calls)
                   < Position("humidity", telemetry.calls)
             /\ Position("temperature", telemetry.delivered) > 0
    /\ Position("humidity", telemetry.delivered) > 0
          => /\ Position("temperature", telemetry.delivered) > 0
             /\ Position("temperature", telemetry.delivered)
                   < Position("humidity", telemetry.delivered)

\* A good sample whose temperature publish raised: the humidity publish was
\* not called.
C31_TemperaturePublishFailed ==
    /\ sensor_read = "ok"
    /\ telemetry.connected
    /\ telemetry.calls = <<"temperature">>
    /\ telemetry.delivered = <<>>

\* poll() is through with the connection it accepted: the socket is closed,
\* or the device restarts with it.
ConnectionOver ==
    conn.accepts > 0 /\ (conn.state = "closed" \/ pc = "reset")

\* C32 (as claimed): a connection that delivered no bytes is closed with no
\* response sent and no handler dispatched; on every other connection
\* exactly one response has been sent when poll() is through with it.
C32_OneResponseUnlessSilent ==
    ConnectionOver =>
        IF request.line = "none"
        THEN conn.sent = 0 /\ ~conn.dispatched
        ELSE conn.sent = 1

====
